---- MODULE Spec2Model ----
(***************************************************************************)
(* Model of pkg/util/pod.go of kapacity: helpers that classify a pod,      *)
(* look up and update the conditions of its status, and add readiness      *)
(* gates to its spec.  The state is one pod (the fields the helpers read   *)
(* and write) and the record of the last call made on it.                  *)
(***************************************************************************)
EXTENDS Integers, Sequences, FiniteSets, TLC

VARIABLES
    pod,            \* the *corev1.Pod a caller holds: nil, or Name, DeletionTimestamp, Status.Phase
    statusNil,      \* whether the *corev1.PodStatus a caller holds is nil (else &pod.Status)
    conditions,     \* pod.Status.Conditions
    specNil,        \* whether the *corev1.PodSpec a caller holds is nil (else &pod.Spec)
    readinessGates, \* pod.Spec.ReadinessGates
    call,           \* the last call: operation, arguments, state before, results
    calls           \* how many times UpdatePodCondition and AddPodCondition were called

vars == <<pod, statusNil, conditions, specNil, readinessGates, call, calls>>

----------------------------------------------------------------------------
(* Bounds of the model *)

\* metav1.Now() returns an instant in 1..MaxClock
MaxClock == 2
\* longest condition list and longest readiness-gate list a behaviour starts from
MaxInitLen == 2
\* UpdatePodCondition and AddPodCondition are called at most MaxCalls times
MaxCalls == 2
\* longest pod list handed to GetPodNames
MaxPods == 2

----------------------------------------------------------------------------
(* Values *)

\* corev1.PodConditionType values used for conditions
ConditionTypes == {"Ready", "Initialized"}
\* corev1.PodConditionType values used as readiness-gate keys
GateTypes == {"Ready", "Initialized", "gate-a", "gate-b"}
\* corev1.ConditionStatus
ConditionStatuses == {"True", "False", "Unknown"}
\* corev1.PodPhase
PodPhases == {"Pending", "Running", "Succeeded", "Failed", "Unknown"}

\* A metav1.Time: an instant and the location it is expressed in.  Instant 0
\* is the zero time.
ZeroTime == [t |-> 0, loc |-> "UTC"]
\* metav1.Now(): the instant the clock shows, in the local location
Now(n) == [t |-> n, loc |-> "Local"]
Clock == 1..MaxClock
\* probe times a caller may supply: two of them are the same instant
ProbeTimes == {ZeroTime, [t |-> 1, loc |-> "UTC"], [t |-> 1, loc |-> "Local"]}

\* metav1.Time.IsZero on a *Time: a nil pointer is zero
IsZero(ts) == ts = "nil" \/ ts = "zero"

\* metav1.Time.Equal: the same instant, whatever the location
TimeEqual(a, b) == a.t = b.t

\* A corev1.PodCondition
Condition(type, status, reason, message, probe, transition) ==
    [Type |-> type, Status |-> status, Reason |-> reason, Message |-> message,
     LastProbeTime |-> probe, LastTransitionTime |-> transition]

\* The Reason, Message and LastProbeTime a caller may supply
Details ==
    {<<"", "", ZeroTime>>, <<"r", "", ZeroTime>>, <<"", "m", ZeroTime>>}
    \cup {<<"", "", p>> : p \in ProbeTimes}

\* The conditions a caller passes to UpdatePodCondition and AddPodCondition
ArgConditions ==
    {Condition(ty, st, d[1], d[2], d[3], ZeroTime) :
        ty \in ConditionTypes, st \in ConditionStatuses, d \in Details}

\* The conditions a status holds when a behaviour starts
InitConditions ==
    {Condition(ty, st, "", "", ZeroTime, ZeroTime) :
        ty \in ConditionTypes, st \in ConditionStatuses}

NoCondition == Condition("", "", "", "", ZeroTime, ZeroTime)

\* A Go slice: nil, or a sequence of items
NilSlice == [isNil |-> TRUE, items |-> <<>>]
Slice(s) == [isNil |-> FALSE, items |-> s]

\* append(slice, x): the result is never nil
AppendSlice(slice, x) == Slice(Append(slice.items, x))

SeqsUpTo(S, n) == UNION {[1..k -> S] : k \in 0..n}

----------------------------------------------------------------------------
(* The functions of pod.go.  A function that can panic returns a record    *)
(* whose fault field says whether it did.                                  *)

\* A scan that keeps going after a match and so answers the last one
RECURSIVE ScanConditionsLast(_, _, _)
ScanConditionsLast(items, conditionType, i) ==
    IF i > Len(items) THEN [index |-> -1, found |-> FALSE]
    ELSE LET rest == ScanConditionsLast(items, conditionType, i + 1)
         IN  IF rest.found THEN rest
             ELSE IF items[i].Type = conditionType
             THEN [index |-> i - 1, found |-> TRUE]
             ELSE rest

\* The loop of GetPodConditionFromList from position i (1-based) on: the
\* index (0-based, as in Go) of the first entry of the type, and whether the
\* returned pointer, &conditions[index], is non-nil.
RECURSIVE ScanConditions(_, _, _)
ScanConditions(items, conditionType, i) ==
    IF i > Len(items) THEN [index |-> -1, found |-> FALSE]
    ELSE IF items[i].Type = conditionType THEN [index |-> i - 1, found |-> TRUE]
    ELSE ScanConditions(items, conditionType, i + 1)

GetPodConditionFromList(conds, conditionType) ==
    IF conds.isNil THEN [index |-> -1, found |-> FALSE]
    ELSE ScanConditions(conds.items, conditionType, 1)

GetPodCondition(stNil, conds, conditionType) ==
    IF stNil THEN [index |-> -1, found |-> FALSE]
    ELSE GetPodConditionFromList(conds, conditionType)

\* The status is passed by value, so the pointer GetPodCondition gets is &status
GetPodReadyCondition(conds) == GetPodCondition(FALSE, conds, "Ready")

\* A readiness test that forgets to look at the Status
IsPodReadyConditionPresent(conds) == GetPodReadyCondition(conds).found

IsPodReadyConditionTrue(conds) ==
    LET got == GetPodReadyCondition(conds)
    IN  got.found /\ conds.items[got.index + 1].Status = "True"

IsPodReady(p, conds) ==
    IF p.isNil THEN [fault |-> TRUE, ret |-> FALSE]
    ELSE [fault |-> FALSE, ret |-> IsPodReadyConditionTrue(conds)]

IsPodRunning(p) ==
    IF p.isNil THEN [fault |-> TRUE, ret |-> FALSE]
    ELSE [fault |-> FALSE,
          ret |-> IsZero(p.DeletionTimestamp) /\ p.Phase = "Running"]

\* An activity test that forgets the Failed phase
IsPodActiveUnlessSucceeded(p) ==
    IF p.isNil THEN [fault |-> TRUE, ret |-> FALSE]
    ELSE [fault |-> FALSE,
          ret |-> p.Phase # "Succeeded" /\ IsZero(p.DeletionTimestamp)]

IsPodActive(p) ==
    IF p.isNil THEN [fault |-> TRUE, ret |-> FALSE]
    ELSE [fault |-> FALSE,
          ret |-> /\ p.Phase # "Succeeded"
                  /\ p.Phase # "Failed"
                  /\ IsZero(p.DeletionTimestamp)]

\* The loop of GetPodNames: pod.Name of a nil pod panics
RECURSIVE AppendNames(_, _, _)
AppendNames(result, pods, i) ==
    IF i > Len(pods) THEN [fault |-> FALSE, names |-> result]
    ELSE IF pods[i].isNil THEN [fault |-> TRUE, names |-> result]
    ELSE AppendNames(Append(result, pods[i].Name), pods, i + 1)

\* make([]string, 0, len(pods)) is an empty slice, never a nil one
GetPodNames(pods) == AppendNames(<<>>, pods.items, 1)

\* An update that never restores the old transition time
KeepTransitionTimeNever(condition, old) == condition

\* An update that leaves Status as it was keeps the old
\* transition time
KeepTransitionTime(condition, old) ==
    IF condition.Status = old.Status
    THEN [condition EXCEPT !.LastTransitionTime = old.LastTransitionTime]
    ELSE condition

\* A comparison that forgets the Message
IsEqualIgnoringMessage(condition, old) ==
    /\ condition.Status = old.Status
    /\ condition.Reason = old.Reason
    /\ TimeEqual(condition.LastProbeTime, old.LastProbeTime)
    /\ TimeEqual(condition.LastTransitionTime, old.LastTransitionTime)

\* The comparison of the new condition with the old one
IsEqual(condition, old) ==
    /\ condition.Status = old.Status
    /\ condition.Reason = old.Reason
    /\ condition.Message = old.Message
    /\ TimeEqual(condition.LastProbeTime, old.LastProbeTime)
    /\ TimeEqual(condition.LastTransitionTime, old.LastTransitionTime)

\* An update that removes the old entry and appends the new one
UpdatePodConditionAtEnd(stNil, conds, condition, now) ==
    LET c1 == [condition EXCEPT !.LastTransitionTime = now]
        got == GetPodCondition(stNil, conds, c1.Type)
    IN  IF ~got.found
        THEN IF stNil
             THEN [fault |-> TRUE, Conditions |-> conds, condition |-> c1,
                   ret |-> FALSE]
             ELSE [fault |-> FALSE, Conditions |-> AppendSlice(conds, c1),
                   condition |-> c1, ret |-> TRUE]
        ELSE LET old == conds.items[got.index + 1]
                 c2 == IF c1.Status = old.Status
                       THEN [c1 EXCEPT !.LastTransitionTime = old.LastTransitionTime]
                       ELSE c1
                 kept == SubSeq(conds.items, 1, got.index)
                           \o SubSeq(conds.items, got.index + 2, Len(conds.items))
             IN  [fault |-> FALSE,
                  Conditions |-> Slice(Append(kept, c2)),
                  condition |-> c2,
                  ret |-> ~(/\ c2.Status = old.Status
                            /\ c2.Reason = old.Reason
                            /\ c2.Message = old.Message
                            /\ TimeEqual(c2.LastProbeTime, old.LastProbeTime)
                            /\ TimeEqual(c2.LastTransitionTime, old.LastTransitionTime))]

\* Conditions: the list afterwards; condition: the caller's condition
\* afterwards (it is passed by pointer and written to)
UpdatePodCondition(stNil, conds, condition, now) ==
    LET c1 == [condition EXCEPT !.LastTransitionTime = now]
        got == GetPodCondition(stNil, conds, c1.Type)
    IN  IF ~got.found
        THEN IF stNil
             THEN \* status.Conditions of a nil status
                  [fault |-> TRUE, Conditions |-> conds, condition |-> c1,
                   ret |-> FALSE]
             ELSE [fault |-> FALSE, Conditions |-> AppendSlice(conds, c1),
                   condition |-> c1, ret |-> TRUE]
        ELSE LET old == conds.items[got.index + 1]
                 c2 == KeepTransitionTime(c1, old)
             IN  [fault |-> FALSE,
                  Conditions |-> [conds EXCEPT !.items[got.index + 1] = c2],
                  condition |-> c2,
                  ret |-> ~IsEqual(c2, old)]

\* An add that appends without looking for the type
AddPodConditionAlways(stNil, conds, condition, now) ==
    LET c1 == [condition EXCEPT !.LastTransitionTime = now]
    IN  IF stNil
        THEN [fault |-> TRUE, Conditions |-> conds, condition |-> c1, ret |-> FALSE]
        ELSE [fault |-> FALSE, Conditions |-> AppendSlice(conds, c1),
              condition |-> c1, ret |-> TRUE]

\* An add that sets the transition time before it looks for the type
AddPodConditionStampFirst(stNil, conds, condition, now) ==
    LET c1 == [condition EXCEPT !.LastTransitionTime = now]
    IN  IF GetPodCondition(stNil, conds, c1.Type).found
        THEN [fault |-> FALSE, Conditions |-> conds, condition |-> c1, ret |-> FALSE]
        ELSE IF stNil
        THEN [fault |-> TRUE, Conditions |-> conds, condition |-> c1, ret |-> FALSE]
        ELSE [fault |-> FALSE, Conditions |-> AppendSlice(conds, c1),
              condition |-> c1, ret |-> TRUE]

AddPodCondition(stNil, conds, condition, now) ==
    IF GetPodCondition(stNil, conds, condition.Type).found
    THEN [fault |-> FALSE, Conditions |-> conds, condition |-> condition,
          ret |-> FALSE]
    ELSE LET c1 == [condition EXCEPT !.LastTransitionTime = now]
         IN  IF stNil
             THEN [fault |-> TRUE, Conditions |-> conds, condition |-> c1,
                   ret |-> FALSE]
             ELSE [fault |-> FALSE, Conditions |-> AppendSlice(conds, c1),
                   condition |-> c1, ret |-> TRUE]

\* A scan that stops after the first gate
HasReadinessGateFirstOnly(gates, conditionType) ==
    Len(gates.items) > 0 /\ gates.items[1].ConditionType = conditionType

\* The loop of AddPodReadinessGate
HasReadinessGate(gates, conditionType) ==
    \E i \in 1..Len(gates.items) : gates.items[i].ConditionType = conditionType

AddPodReadinessGate(spNil, gates, conditionType) ==
    IF spNil THEN [fault |-> TRUE, ReadinessGates |-> gates, ret |-> FALSE]
    ELSE IF HasReadinessGate(gates, conditionType)
    THEN [fault |-> FALSE, ReadinessGates |-> gates, ret |-> FALSE]
    ELSE [fault |-> FALSE,
          ReadinessGates |-> AppendSlice(gates, [ConditionType |-> conditionType]),
          ret |-> TRUE]

----------------------------------------------------------------------------
(* The pods, lists and calls of the model *)

PodNames == {"a", "b"}
NilPod == [isNil |-> TRUE, Name |-> "", DeletionTimestamp |-> "nil", Phase |-> ""]
Pod(name, deletion, phase) ==
    [isNil |-> FALSE, Name |-> name, DeletionTimestamp |-> deletion, Phase |-> phase]

\* DeletionTimestamp is a *metav1.Time: nil, the zero time, or a set time
Pods ==
    {NilPod} \cup
    {Pod(n, d, ph) : n \in PodNames, d \in {"nil", "zero", "set"}, ph \in PodPhases}

\* The pod lists handed to GetPodNames
PodLists ==
    {NilSlice} \cup
    {Slice(s) : s \in SeqsUpTo({NilPod} \cup {Pod(n, "nil", "Running") : n \in PodNames},
                               MaxPods)}

NoCall ==
    [op |-> "none", type |-> "", arg |-> NoCondition, condition |-> NoCondition,
     now |-> ZeroTime, pre |-> NilSlice, preGates |-> NilSlice, pods |-> NilSlice,
     index |-> -1, found |-> FALSE, ret |-> FALSE, names |-> <<>>, fault |-> FALSE,
     repeat |-> FALSE]

\* Whether a call of UpdatePodCondition with condition c comes right after a
\* call of UpdatePodCondition with the same Type, Status, Reason, Message and
\* LastProbeTime
Repeats(c) ==
    /\ call.op = "UpdatePodCondition"
    /\ ~call.fault
    /\ c.Type = call.arg.Type
    /\ c.Status = call.arg.Status
    /\ c.Reason = call.arg.Reason
    /\ c.Message = call.arg.Message
    /\ c.LastProbeTime = call.arg.LastProbeTime

\* A panic ends the program
NoPanic == ~call.fault

----------------------------------------------------------------------------
(* One action per function: a caller calls it on the pod *)

CallGetPodNames ==
    /\ NoPanic
    /\ \E pods \in PodLists :
         LET r == GetPodNames(pods)
         IN  call' = [NoCall EXCEPT !.op = "GetPodNames", !.pods = pods,
                                    !.names = r.names, !.fault = r.fault]
    /\ UNCHANGED <<pod, statusNil, conditions, specNil, readinessGates, calls>>

CallIsPodRunning ==
    /\ NoPanic
    /\ LET r == IsPodRunning(pod)
       IN  call' = [NoCall EXCEPT !.op = "IsPodRunning", !.ret = r.ret,
                                  !.fault = r.fault]
    /\ UNCHANGED <<pod, statusNil, conditions, specNil, readinessGates, calls>>

CallIsPodActive ==
    /\ NoPanic
    /\ LET r == IsPodActive(pod)
       IN  call' = [NoCall EXCEPT !.op = "IsPodActive", !.ret = r.ret,
                                  !.fault = r.fault]
    /\ UNCHANGED <<pod, statusNil, conditions, specNil, readinessGates, calls>>

CallIsPodReady ==
    /\ NoPanic
    /\ LET r == IsPodReady(pod, conditions)
       IN  call' = [NoCall EXCEPT !.op = "IsPodReady", !.pre = conditions,
                                  !.ret = r.ret, !.fault = r.fault]
    /\ UNCHANGED <<pod, statusNil, conditions, specNil, readinessGates, calls>>

CallGetPodReadyCondition ==
    /\ NoPanic
    /\ ~pod.isNil
    /\ LET r == GetPodReadyCondition(conditions)
       IN  call' = [NoCall EXCEPT !.op = "GetPodReadyCondition", !.type = "Ready",
                                  !.pre = conditions,
                                  !.index = r.index, !.found = r.found]
    /\ UNCHANGED <<pod, statusNil, conditions, specNil, readinessGates, calls>>

CallGetPodCondition ==
    /\ NoPanic
    /\ \E ty \in ConditionTypes :
         LET r == GetPodCondition(statusNil, conditions, ty)
         IN  call' = [NoCall EXCEPT !.op = "GetPodCondition", !.type = ty,
                                    !.pre = conditions,
                                    !.index = r.index, !.found = r.found]
    /\ UNCHANGED <<pod, statusNil, conditions, specNil, readinessGates, calls>>

CallGetPodConditionFromList ==
    /\ NoPanic
    /\ \E ty \in ConditionTypes :
         LET r == GetPodConditionFromList(conditions, ty)
         IN  call' = [NoCall EXCEPT !.op = "GetPodConditionFromList", !.type = ty,
                                    !.pre = conditions,
                                    !.index = r.index, !.found = r.found]
    /\ UNCHANGED <<pod, statusNil, conditions, specNil, readinessGates, calls>>

CallUpdatePodCondition ==
    /\ NoPanic
    /\ calls < MaxCalls
    /\ \E c \in ArgConditions, n \in Clock :
         LET r == UpdatePodCondition(statusNil, conditions, c, Now(n))
         IN  /\ conditions' = r.Conditions
             /\ call' = [NoCall EXCEPT !.op = "UpdatePodCondition", !.type = c.Type,
                                       !.arg = c, !.condition = r.condition,
                                       !.now = Now(n), !.pre = conditions,
                                       !.ret = r.ret, !.fault = r.fault,
                                       !.repeat = Repeats(c)]
    /\ calls' = calls + 1
    /\ UNCHANGED <<pod, statusNil, specNil, readinessGates>>

CallAddPodCondition ==
    /\ NoPanic
    /\ calls < MaxCalls
    /\ \E c \in ArgConditions, n \in Clock :
         LET r == AddPodCondition(statusNil, conditions, c, Now(n))
         IN  /\ conditions' = r.Conditions
             /\ call' = [NoCall EXCEPT !.op = "AddPodCondition", !.type = c.Type,
                                       !.arg = c, !.condition = r.condition,
                                       !.now = Now(n), !.pre = conditions,
                                       !.ret = r.ret, !.fault = r.fault]
    /\ calls' = calls + 1
    /\ UNCHANGED <<pod, statusNil, specNil, readinessGates>>

CallAddPodReadinessGate ==
    /\ NoPanic
    /\ \E ty \in GateTypes :
         LET r == AddPodReadinessGate(specNil, readinessGates, ty)
         IN  /\ readinessGates' = r.ReadinessGates
             /\ call' = [NoCall EXCEPT !.op = "AddPodReadinessGate", !.type = ty,
                                       !.preGates = readinessGates,
                                       !.ret = r.ret, !.fault = r.fault]
    /\ UNCHANGED <<pod, statusNil, conditions, specNil, calls>>

----------------------------------------------------------------------------
(* Specifications *)

ConditionLists ==
    {NilSlice} \cup {Slice(s) : s \in SeqsUpTo(InitConditions, MaxInitLen)}

GateLists ==
    {NilSlice} \cup
    {Slice(s) : s \in SeqsUpTo({[ConditionType |-> ty] : ty \in GateTypes}, MaxInitLen)}

\* At most one condition of a Type
UniqueTypes(conds) ==
    \A i, j \in 1..Len(conds.items) :
        conds.items[i].Type = conds.items[j].Type => i = j

\* At most one readiness gate of a key
UniqueGates(gates) ==
    \A i, j \in 1..Len(gates.items) :
        gates.items[i].ConditionType = gates.items[j].ConditionType => i = j

\* The pod of the spec's scenario: running, not being deleted
ScenarioPod == Pod("a", "nil", "Running")

\* The condition helpers on a status of any conditions, also several of a type
InitAny ==
    /\ pod = ScenarioPod
    /\ statusNil \in BOOLEAN
    /\ conditions \in ConditionLists
    /\ specNil = FALSE
    /\ readinessGates = NilSlice
    /\ call = NoCall
    /\ calls = 0

\* The condition helpers on a status with at most one condition of a type
Init ==
    /\ InitAny
    /\ UniqueTypes(conditions)

Next ==
    \/ CallUpdatePodCondition
    \/ CallAddPodCondition
    \/ CallGetPodCondition
    \/ CallGetPodConditionFromList
    \/ CallGetPodReadyCondition
    \/ CallIsPodReady

Spec == Init /\ [][Next]_vars

SpecAny == InitAny /\ [][Next]_vars

\* The pod helpers and the readiness gates, on any pod
InitUnit ==
    /\ pod \in Pods
    /\ statusNil = pod.isNil
    /\ conditions = NilSlice
    /\ specNil = pod.isNil
    /\ readinessGates \in {g \in GateLists : UniqueGates(g)}
    /\ pod.isNil => readinessGates = NilSlice
    /\ call = NoCall
    /\ calls = 0

NextUnit ==
    \/ CallGetPodNames
    \/ CallIsPodRunning
    \/ CallIsPodActive
    \/ CallAddPodReadinessGate

SpecUnit == InitUnit /\ [][NextUnit]_vars

----------------------------------------------------------------------------
(* Properties *)

HasType(conds, ty) == \E i \in 1..Len(conds.items) : conds.items[i].Type = ty

\* The position (1-based) of the first condition of the type
FirstOfType(conds, ty) ==
    CHOOSE i \in 1..Len(conds.items) :
        /\ conds.items[i].Type = ty
        /\ \A j \in 1..(i - 1) : conds.items[j].Type # ty

\* The caller's condition with LastTransitionTime set to the time of the call
Stamped(c, now) == [c EXCEPT !.LastTransitionTime = now]

Updated == call.op = "UpdatePodCondition" /\ ~statusNil
Added == call.op = "AddPodCondition" /\ ~statusNil

\* C1: a condition list with at most one entry per Type keeps at most one
\* entry per Type over every sequence of UpdatePodCondition and
\* AddPodCondition calls.
C1_OneConditionPerType == UniqueTypes(conditions)

\* Both calls were made: one appended a second type, the last one hit a type
\* that was there
C1_Witness ==
    /\ calls = MaxCalls
    /\ Len(conditions.items) = 2
    /\ Len(call.pre.items) = 2
    /\ call.op \in {"UpdatePodCondition", "AddPodCondition"}
    /\ HasType(call.pre, call.type)
    /\ conditions.items[2].LastTransitionTime # ZeroTime

\* C2: the LastTransitionTime stored at a position of the list changes only
\* in an UpdatePodCondition call whose condition has another Status than the
\* entry stored there; an UpdatePodCondition call with the Status of the
\* stored entry leaves the entry with the transition time it had, whatever
\* the clock shows and whatever Reason, Message and LastProbeTime come in.
C2_TransitionTimeOnlyOnStatusChange ==
    /\ \A i \in 1..Len(call.pre.items) :
         LET old == call.pre.items[i]
             new == conditions.items[i]
         IN  /\ Len(conditions.items) >= Len(call.pre.items)
             /\ new.Type = old.Type
             /\ new.LastTransitionTime # old.LastTransitionTime
                  => /\ call.op = "UpdatePodCondition"
                     /\ call.arg.Type = old.Type
                     /\ call.arg.Status # old.Status
    /\ (Updated /\ HasType(call.pre, call.type))
         => LET i == FirstOfType(call.pre, call.type)
            IN  call.arg.Status = call.pre.items[i].Status
                  => /\ conditions.items[i].LastTransitionTime
                          = call.pre.items[i].LastTransitionTime
                     /\ call.condition.LastTransitionTime
                          = call.pre.items[i].LastTransitionTime

\* An update with the stored Status, at a clock value that is not the stored
\* transition time, with another Reason: the transition time stayed
C2_Witness ==
    /\ Updated
    /\ HasType(call.pre, call.type)
    /\ LET i == FirstOfType(call.pre, call.type)
       IN  /\ call.arg.Status = call.pre.items[i].Status
           /\ call.arg.Reason # call.pre.items[i].Reason
           /\ call.pre.items[i].LastTransitionTime # ZeroTime
           /\ call.now # call.pre.items[i].LastTransitionTime
           /\ conditions.items[i].LastTransitionTime
                = call.pre.items[i].LastTransitionTime

\* C3: UpdatePodCondition returns true and appends the condition when the
\* status has none of its Type.  When it has one, the call returns false
\* exactly when Status, Reason and Message are those of the stored entry,
\* LastProbeTime is the instant of the stored entry and the transition time
\* left in the list is the stored one; so a call with another Status returns
\* true, and a call with the stored Status and another Reason, Message or
\* probe instant returns true with the transition time rolled back.
C3_UpdateReportsChange ==
    Updated =>
        IF ~HasType(call.pre, call.type)
        THEN /\ call.ret
             /\ conditions.items = Append(call.pre.items, Stamped(call.arg, call.now))
        ELSE LET i == FirstOfType(call.pre, call.type)
                 old == call.pre.items[i]
                 new == conditions.items[i]
                 same == /\ call.arg.Status = old.Status
                         /\ call.arg.Reason = old.Reason
                         /\ call.arg.Message = old.Message
                         /\ call.arg.LastProbeTime.t = old.LastProbeTime.t
                         /\ new.LastTransitionTime.t = old.LastTransitionTime.t
             IN  /\ call.ret = ~same
                 /\ call.arg.Status # old.Status => call.ret
                 /\ (/\ call.arg.Status = old.Status
                     /\ \/ call.arg.Reason # old.Reason
                        \/ call.arg.Message # old.Message
                        \/ call.arg.LastProbeTime.t # old.LastProbeTime.t)
                      => /\ call.ret
                         /\ new.LastTransitionTime = old.LastTransitionTime

\* An update that changes only the Message of a stored entry written at
\* another clock value: reported as a change, transition time rolled back
C3_Witness ==
    /\ Updated
    /\ HasType(call.pre, call.type)
    /\ LET old == call.pre.items[FirstOfType(call.pre, call.type)]
       IN  /\ call.arg.Status = old.Status
           /\ call.arg.Reason = old.Reason
           /\ call.arg.Message # old.Message
           /\ call.arg.LastProbeTime = old.LastProbeTime
           /\ old.LastTransitionTime # ZeroTime
           /\ call.now # old.LastTransitionTime
           /\ call.ret

\* C4: AddPodCondition on a status that has a condition of the Type returns
\* false and writes nothing: the list and the caller's condition are as they
\* were.  On a status that has none it returns true, having set the
\* condition's LastTransitionTime to the time of the call and appended it
\* after the entries there were, which are as they were.
C4_AddOnlyWhenAbsent ==
    Added =>
        IF HasType(call.pre, call.type)
        THEN /\ ~call.ret
             /\ conditions = call.pre
             /\ call.condition = call.arg
        ELSE /\ call.ret
             /\ call.condition = Stamped(call.arg, call.now)
             /\ conditions.items = Append(call.pre.items, call.condition)
             /\ ~conditions.isNil

\* A second AddPodCondition of a Type, with another Status, at another clock
\* value than the one the stored entry was written at
C4_Witness ==
    /\ Added
    /\ HasType(call.pre, call.type)
    /\ LET old == call.pre.items[FirstOfType(call.pre, call.type)]
       IN  /\ old.LastTransitionTime # ZeroTime
           /\ call.arg.Status # old.Status
    /\ ~call.ret

\* C5: a readiness-gate list with at most one gate per key keeps at most one
\* gate per key over every sequence of AddPodReadinessGate calls; a call
\* with a key of the list returns false and leaves the list as it was, a
\* call with another key appends one gate of that key and returns true.
C5_OneGatePerKey ==
    /\ UniqueGates(readinessGates)
    /\ (call.op = "AddPodReadinessGate" /\ ~specNil)
         => IF \E i \in 1..Len(call.preGates.items) :
                   call.preGates.items[i].ConditionType = call.type
            THEN /\ ~call.ret
                 /\ readinessGates = call.preGates
            ELSE /\ call.ret
                 /\ readinessGates.items
                      = Append(call.preGates.items, [ConditionType |-> call.type])

\* A gate is asked for again when two other gates stand before it
C5_Witness ==
    /\ call.op = "AddPodReadinessGate"
    /\ ~call.ret
    /\ Len(readinessGates.items) >= 3
    /\ readinessGates.items[3].ConditionType = call.type

\* C6: no operation raises a fault, and a lookup on a nil status or a nil
\* list answers "not found" (index -1, no condition).
C6_NoOperationFaults ==
    /\ ~call.fault
    /\ (call.op = "GetPodCondition" /\ statusNil) => (call.index = -1 /\ ~call.found)

\* C7: GetPodCondition and GetPodConditionFromList answer index -1 and no
\* condition when the status is nil, the list is nil or empty, or no entry
\* has the type; otherwise the smallest index whose entry has the type,
\* with that entry, also when several entries have the type.
C7_FirstMatch ==
    call.op \in {"GetPodCondition", "GetPodConditionFromList"} =>
        IF \/ call.op = "GetPodCondition" /\ statusNil
           \/ call.pre.isNil
           \/ ~HasType(call.pre, call.type)
        THEN call.index = -1 /\ ~call.found
        ELSE /\ call.found
             /\ call.index \in 0..(Len(call.pre.items) - 1)
             /\ call.pre.items[call.index + 1].Type = call.type
             /\ \A j \in 1..call.index : call.pre.items[j].Type # call.type

\* A lookup of a type that two entries of different Status have
C7_Witness ==
    /\ call.op \in {"GetPodCondition", "GetPodConditionFromList"}
    /\ call.found
    /\ Len(call.pre.items) >= 2
    /\ call.pre.items[1].Type = call.type
    /\ call.pre.items[2].Type = call.type
    /\ call.pre.items[1].Status # call.pre.items[2].Status

\* What IsPodReady answers on the pod as it is
Ready == IsPodReady(pod, conditions).ret

\* The list of the spec's scenario
ScenarioConditions == Slice(<<Condition("Ready", "False", "", "", ZeroTime, ZeroTime)>>)

\* The parts of C8 that hold whatever "a condition of Type Ready" is read as
C8_Tracks ==
    /\ (Updated /\ call.type = "Ready") => (Ready = (call.arg.Status = "True"))
    /\ (Updated /\ call.pre = ScenarioConditions /\ call.type = "Ready"
          /\ call.arg.Status = "True")
         => /\ ~IsPodReady(pod, call.pre).ret
            /\ call.ret
            /\ Len(conditions.items) = 1
            /\ conditions.items[1].LastTransitionTime = call.now
            /\ Ready

\* A call that is no UpdatePodCondition of Type Ready, on a status that has
\* a condition of Type Ready, leaves the answer of IsPodReady as it was
C8_Stays ==
    (/\ HasType(conditions, "Ready")
     /\ call'.op \in {"UpdatePodCondition", "AddPodCondition"}
     /\ ~(call'.op = "UpdatePodCondition" /\ call'.type = "Ready"))
        => IsPodReady(pod', conditions').ret = Ready

\* C8 as stated: IsPodReady is true iff some condition of the status has
\* Type Ready and Status True, and it tracks updates.
C8_Original ==
    [][/\ (call.op = "IsPodReady"
             => call.ret = (\E i \in 1..Len(conditions.items) :
                               /\ conditions.items[i].Type = "Ready"
                               /\ conditions.items[i].Status = "True"))'
       /\ C8_Tracks'
       /\ C8_Stays]_vars

\* C8, amended: IsPodReady is true iff the first condition of Type Ready of
\* the status has Status True; right after UpdatePodCondition of
\* {Ready, s} it is true iff s is True, and it stays so over AddPodCondition
\* calls and UpdatePodCondition calls of other Types; in the scenario the
\* update returns true and leaves one entry, and IsPodReady turns true.
C8_ReadyTracksUpdates ==
    [][/\ (call.op = "IsPodReady"
             => call.ret = (/\ HasType(conditions, "Ready")
                            /\ conditions.items[FirstOfType(conditions, "Ready")].Status
                                 = "True"))'
       /\ C8_Tracks'
       /\ C8_Stays]_vars

\* Of two conditions of Type Ready the first was updated to True (only an
\* update writes the first of two), and a later AddPodCondition of
\* {Ready, False} left the pod ready
C8_Witness ==
    /\ call.op = "AddPodCondition"
    /\ ~statusNil
    /\ call.type = "Ready"
    /\ call.arg.Status = "False"
    /\ Len(conditions.items) >= 2
    /\ conditions.items[1].Type = "Ready"
    /\ conditions.items[2].Type = "Ready"
    /\ conditions.items[1].Status = "True"
    /\ conditions.items[1].LastTransitionTime # ZeroTime
    /\ conditions.items[2].Status = "False"
    /\ Ready

\* C9: IsPodRunning is true iff the deletion timestamp is nil or zero and
\* the Phase is Running; IsPodActive is true iff the Phase is neither
\* Succeeded nor Failed and the deletion timestamp is nil or zero.  So a
\* Succeeded or Failed pod is never active, and a running pod is active.
C9_RunningAndActive ==
    ~pod.isNil =>
        LET notDeleted == pod.DeletionTimestamp \in {"nil", "zero"}
        IN  /\ call.op = "IsPodRunning"
                 => /\ call.ret = (notDeleted /\ pod.Phase = "Running")
                    /\ call.ret => IsPodActive(pod).ret
            /\ call.op = "IsPodActive"
                 => /\ call.ret = (pod.Phase \notin {"Succeeded", "Failed"} /\ notDeleted)
                    /\ pod.Phase \in {"Succeeded", "Failed"} => ~call.ret

\* A Failed pod that is not being deleted was asked whether it is active
C9_Witness ==
    /\ call.op = "IsPodActive"
    /\ ~pod.isNil
    /\ pod.Phase = "Failed"
    /\ pod.DeletionTimestamp = "zero"
    /\ ~call.ret

\* C10: an UpdatePodCondition call right after one with the same Type,
\* Status, Reason, Message and LastProbeTime returns false and leaves the
\* list as the first call left it, whatever the two clock values; and every
\* UpdatePodCondition call on a Type the status has replaces the first
\* entry of the Type in place: same length, the other entries as they were.
C10_UpdateIdempotent ==
    /\ (call.op = "UpdatePodCondition" /\ call.repeat)
         => /\ ~call.ret
            /\ conditions = call.pre
    /\ (Updated /\ HasType(call.pre, call.type))
         => LET i == FirstOfType(call.pre, call.type)
            IN  /\ Len(conditions.items) = Len(call.pre.items)
                /\ \A j \in 1..Len(call.pre.items) :
                     j # i => conditions.items[j] = call.pre.items[j]
                /\ conditions.items[i] = call.condition
                /\ call.condition
                     = Stamped(call.arg, call.condition.LastTransitionTime)

\* The second of two equal calls, at a clock value that is not the one the
\* first call wrote, on a list where another entry follows the updated one
C10_Witness ==
    /\ call.op = "UpdatePodCondition"
    /\ call.repeat
    /\ Len(conditions.items) >= 2
    /\ LET i == FirstOfType(call.pre, call.type)
       IN  /\ i < Len(conditions.items)
           /\ conditions.items[i].LastTransitionTime # ZeroTime
           /\ conditions.items[i].LastTransitionTime # call.now

====
